---------------------------- MODULE Spec2Model ----------------------------
(***************************************************************************)
(* Model of app.py, the Streamlit text-mining tool (MeCab tokenizer,       *)
(* frequency report, word cloud, co-occurrence network, KWIC search).      *)
(*                                                                         *)
(* Strings are sequences of one-character strings, so that str.lower(),    *)
(* str.strip(), len() and re.split() are computed and not assumed.         *)
(* The dictionary keys and tag values of app.py are Japanese; the module   *)
(* language is ASCII, so they are romanised:                               *)
(*   '表層形' hyousoukei   '原形' genkei   '品詞' hinshi                   *)
(*   '品詞細分類1' hinshi_saibunrui1                                       *)
(*   '名詞' "meishi"  '動詞' "doushi"  '形容詞' "keiyoushi"                *)
(*   '助詞' "joshi"   '記号' "kigou"                                       *)
(*   '非自立' "hijiritsu"  '数' "kazu"  '代名詞' "daimeishi"               *)
(*   '接尾' "setsubi"  'サ変接続' "sahen_setsuzoku"                        *)
(*   '副詞可能' "fukushi_kanou"  '一般' "ippan"  '自立' "jiritsu"          *)
(*   '固有名詞' "koyuu_meishi"  '句点' "kuten"                             *)
(*   '順位' juni  '単語 (原形)' tango  '出現数' shutsugensu                *)
(*   '出現頻度 (%)' shutsugen_hindo                                        *)
(*   '左文脈' hidari_bunmyaku  'キーワード' keyword  '右文脈' migi_bunmyaku*)
(* The character "." stands for the full stop 。 .                         *)
(***************************************************************************)
EXTENDS Integers, Sequences, FiniteSets, TLC

VARIABLES
    main_text_input_area_val,           \* the text area: a sequence of lexical units
    morphemes_data_list_result,         \* all_morphemes of the analyzers
    target_pos_list,                    \* the multiselect handed to the analyzer
    custom_stopwords_input_str_from_ui, \* the stop-word text area (characters)
    final_stop_words_set_for_analysis,  \* stop_words_set of the analyzers
    network_node_min_freq_val_ui,       \* node_min_freq
    network_edge_min_freq_val_ui,       \* edge_min_freq
    font_path,                          \* FONT_PATH_FINAL: TRUE when a font file exists
    keyword_str,                        \* KWIC keyword
    search_key_type_str,                \* "genkei" or "hyousoukei"
    window_int,                         \* KWIC window
    kwic_keyword,                       \* st.session_state.kwic_keyword
    kwic_keyword_input_field,           \* the state of the KWIC keyword widget
    cache_resource,                     \* st.cache_resource of the tagger initialiser
    session_state,                      \* st.session_state of every browser session
    tagger_constructions,               \* how often MeCab.Tagger(...) was constructed
    pc,                                 \* position of the script
    ret                                 \* what the analyzer under study returned

textVars == <<main_text_input_area_val, morphemes_data_list_result>>
filterVars == <<target_pos_list, final_stop_words_set_for_analysis>>
netVars == <<network_node_min_freq_val_ui, network_edge_min_freq_val_ui, font_path>>
kwicVars == <<keyword_str, search_key_type_str, window_int, kwic_keyword,
              kwic_keyword_input_field>>
sessionVars == <<cache_resource, session_state, tagger_constructions>>
vars == <<textVars, filterVars, custom_stopwords_input_str_from_ui, netVars,
          kwicVars, sessionVars, pc, ret>>

-----------------------------------------------------------------------------
(* Bounds of the model *)

MaxTextLen == 3      \* units in the text of the report and KWIC specifications
MaxWindow == 2       \* largest KWIC window tried (the slider starts at 1)
MaxNetTextLen == 5   \* units in the text of the co-occurrence specification
MaxPairTextLen == 6  \* units in the text of the pair-counting specification
MaxStopLen == 3      \* characters in the stop-word text area
MaxStopTextLen == 2  \* units in the text of the stop-word specification
NumSessions == 2     \* browser sessions served by the one process

-----------------------------------------------------------------------------
(* Python strings *)

\* str.lower() on one character: only the Latin capitals change
lower_char(c) ==
    CASE c = "A" -> "a"
      [] c = "B" -> "b"
      [] OTHER -> c

\* str.lower()
lower(s) == [i \in DOMAIN s |-> lower_char(s[i])]

\* "_" stands for the ideographic space U+3000, which Python counts as white space
\* and the ipadic dictionary tokenizes as a symbol ('記号,空白')
IDEOGRAPHIC_SPACE == "_"

\* the characters str.strip() removes
isspace(c) == c \in {" ", "\n", "\t", IDEOGRAPHIC_SPACE}

RECURSIVE lstrip(_)
lstrip(s) ==
    IF s # <<>> /\ isspace(Head(s)) THEN lstrip(Tail(s)) ELSE s

RECURSIVE rstrip(_)
rstrip(s) ==
    IF s # <<>> /\ isspace(s[Len(s)]) THEN rstrip(SubSeq(s, 1, Len(s) - 1)) ELSE s

\* str.strip()
strip(s) == rstrip(lstrip(s))

\* "".join(parts)
RECURSIVE join(_)
join(parts) ==
    IF parts = <<>> THEN <<>> ELSE Head(parts) \o join(Tail(parts))

\* all sequences over S of length at most n
RECURSIVE SeqUpTo(_, _)
SeqUpTo(S, n) ==
    IF n = 0 THEN {<<>>}
    ELSE LET shorter == SeqUpTo(S, n - 1)
         IN  shorter \cup {Append(s, x) : s \in {t \in shorter : Len(t) = n - 1}, x \in S}

-----------------------------------------------------------------------------
(* The MeCab tagger and perform_morphological_analysis *)

\* node.feature.split(','): fields 0..6 of the ipadic feature, as a tuple
\* (TLA+ tuples are 1-based: features[6] of the code is feature[7] here)
Feature(hinshi, sub1, genkei) == <<hinshi, sub1, "*", "*", "*", "*", genkei>>

\* What the tagger's dictionary answers for each lexical unit of a text.
\* A unit the dictionary does not know has base form "*".
Dictionary(surface) ==
    CASE surface = <<"A", "b">> -> Feature("meishi", "koyuu_meishi", <<"*">>)
      [] surface = <<"a", "b">> -> Feature("meishi", "ippan", <<"a", "b">>)
      [] surface = <<"b">>      -> Feature("doushi", "jiritsu", <<"b", "a">>)
      [] surface = <<"a">>      -> Feature("doushi", "jiritsu", <<"a">>)
      [] surface = <<"c">>      -> Feature("meishi", "sahen_setsuzoku", <<"c">>)
      [] surface = <<"d">>      -> Feature("joshi", "kakujoshi", <<"d">>)
      [] surface = <<"1">>      -> Feature("meishi", "kazu", <<"1">>)
      [] surface = <<".">>      -> Feature("kigou", "kuten", <<".">>)
      [] surface = <<IDEOGRAPHIC_SPACE>>
                                -> Feature("kigou", "kuuhaku", <<IDEOGRAPHIC_SPACE>>)
      [] OTHER                  -> Feature("meishi", "ippan", <<"*">>)

\* the tagger's sentence-boundary node: empty surface
BOS_EOS == [surface |-> <<>>, feature |-> Feature("BOS/EOS", "*", <<"*">>)]

\* MeCab skips ASCII white space between units
IsWhiteUnit(u) == \A i \in DOMAIN u : u[i] \in {" ", "\n", "\t"}

\* tagger_instance.parseToNode(text): the linked list of nodes, BOS first, EOS last
RECURSIVE parseUnits(_)
parseUnits(text) ==
    IF text = <<>> THEN <<>>
    ELSE IF IsWhiteUnit(Head(text)) THEN parseUnits(Tail(text))
    ELSE <<[surface |-> Head(text), feature |-> Dictionary(Head(text))]>>
         \o parseUnits(Tail(text))

parseToNode(text) == <<BOS_EOS>> \o parseUnits(text) \o <<BOS_EOS>>

\* the base form of a node: features[6] if features[6] != '*' else node.surface
original_form(node) ==
    IF node.feature[7] # <<"*">> THEN node.feature[7] ELSE node.surface

\* one all_morphemes entry
MorphemeOf(node) ==
    [hyousoukei |-> node.surface,
     genkei |-> original_form(node),
     hinshi |-> node.feature[1],
     hinshi_saibunrui1 |-> node.feature[2]]

RECURSIVE morphemes_of_nodes(_)
morphemes_of_nodes(nodes) ==
    IF nodes = <<>> THEN <<>>
    ELSE IF Head(nodes).surface # <<>>
         THEN <<MorphemeOf(Head(nodes))>> \o morphemes_of_nodes(Tail(nodes))
         ELSE morphemes_of_nodes(Tail(nodes))

\* perform_morphological_analysis(text_input), with the tagger available or not
perform_morphological_analysis(tagger_available, text_input) ==
    IF ~tagger_available \/ text_input = <<>> THEN <<>>
    ELSE morphemes_of_nodes(parseToNode(text_input))

-----------------------------------------------------------------------------
(* collections.Counter *)

\* Counter(words): the (word, count) items in first-insertion order
RECURSIVE CounterAdd(_, _)
CounterAdd(items, word) ==
    IF items = <<>> THEN <<[word |-> word, count |-> 1]>>
    ELSE IF Head(items).word = word
         THEN <<[word |-> word, count |-> Head(items).count + 1]>> \o Tail(items)
         ELSE <<Head(items)>> \o CounterAdd(Tail(items), word)

RECURSIVE Counter(_)
Counter(words) ==
    IF words = <<>> THEN <<>>
    ELSE CounterAdd(Counter(SubSeq(words, 1, Len(words) - 1)), words[Len(words)])

RemoveAt(s, i) == SubSeq(s, 1, i - 1) \o SubSeq(s, i + 1, Len(s))

\* Counter.most_common(): sorted by count, largest first, ties in insertion order
RECURSIVE most_common(_)
most_common(items) ==
    IF items = <<>> THEN <<>>
    ELSE LET first == CHOOSE i \in DOMAIN items :
                          /\ \A j \in DOMAIN items : items[j].count <= items[i].count
                          /\ \A j \in 1..(i - 1) : items[j].count < items[i].count
         IN  <<items[first]>> \o most_common(RemoveAt(items, first))

\* sum(word_counts.values())
RECURSIVE sum_counts(_)
sum_counts(items) ==
    IF items = <<>> THEN 0 ELSE Head(items).count + sum_counts(Tail(items))

-----------------------------------------------------------------------------
(* generate_word_report *)

\* Python's None
None == [py |-> "None"]

\* the noun sub-classifications the report skips (line 135)
REPORT_EXCLUDED_SUB1 ==
    {"hijiritsu", "kazu", "daimeishi", "setsubi", "sahen_setsuzoku", "fukushi_kanou"}

\* the loop of lines 133-137
RECURSIVE report_target_morphemes(_, _, _)
report_target_morphemes(all_morphemes, pos_list, stop_words_set) ==
    IF all_morphemes = <<>> THEN <<>>
    ELSE LET m == Head(all_morphemes)
             rest == report_target_morphemes(Tail(all_morphemes), pos_list, stop_words_set)
         IN  IF m.hinshi \in pos_list /\ m.genkei \notin stop_words_set
             THEN IF m.hinshi = "meishi" /\ m.hinshi_saibunrui1 \in REPORT_EXCLUDED_SUB1
                  THEN rest
                  ELSE <<m>> \o rest
             ELSE rest

\* representative_info_for_report[word]['品詞']: the loop of lines 142-145 runs from
\* the last morpheme to the first and keeps the first one it meets for each word
representative_info_for_report(targets, word) ==
    LET last == CHOOSE i \in DOMAIN targets :
                    /\ targets[i].genkei = word
                    /\ \A j \in (i + 1)..Len(targets) : targets[j].genkei # word
    IN  targets[last].hinshi

\* round(x, 0) of the quotient n / d, ties to the even neighbour
round_half_even(n, d) ==
    LET q == n \div d
        r == n % d
    IN  IF 2 * r < d THEN q
        ELSE IF 2 * r > d THEN q + 1
        ELSE IF q % 2 = 0 THEN q ELSE q + 1

\* round((count / total) * 100, 3), in thousandths of a percent; 0 when total is 0
frequency_mutant_filtered_denominator(count, all_morphemes, targets) ==
    IF Len(targets) > 0 THEN round_half_even(count * 100000, Len(targets)) ELSE 0

frequency(count, all_morphemes, targets) ==
    LET total_all_morphemes_count_for_freq == Len(all_morphemes)
    IN  IF total_all_morphemes_count_for_freq > 0
        THEN round_half_even(count * 100000, total_all_morphemes_count_for_freq)
        ELSE 0

\* total_report_target_morphemes_count = sum(word_counts.values())
total_report_target_morphemes_count_mutant_distinct(word_counts) == Len(word_counts)

total_report_target_morphemes_count(word_counts) == sum_counts(word_counts)

\* report_data: the loop of lines 148-154 over word_counts.most_common()
report_data(ranked, all_morphemes, targets) ==
    [rank \in DOMAIN ranked |->
        [juni |-> rank,
         tango |-> ranked[rank].word,
         shutsugensu |-> ranked[rank].count,
         shutsugen_hindo |-> frequency(ranked[rank].count, all_morphemes, targets),
         hinshi |-> representative_info_for_report(targets, ranked[rank].word)]]

\* the three values generate_word_report returns
generate_word_report(all_morphemes, pos_list, stop_words_set) ==
    IF all_morphemes = <<>>
    THEN [df |-> <<>>, total_all |-> 0, total_target |-> 0]
    ELSE LET targets == report_target_morphemes(all_morphemes, pos_list, stop_words_set)
         IN  IF targets = <<>>
             THEN [df |-> <<>>, total_all |-> Len(all_morphemes), total_target |-> 0]
             ELSE LET word_counts == Counter([i \in DOMAIN targets |-> targets[i].genkei])
                  IN  [df |-> report_data(most_common(word_counts), all_morphemes, targets),
                       total_all |-> Len(all_morphemes),
                       total_target |-> total_report_target_morphemes_count(word_counts)]

-----------------------------------------------------------------------------
(* Inputs of the specifications *)

\* the lexical units a text is made of
Units == {<<"A", "b">>, <<"a", "b">>, <<"b">>, <<"c">>, <<"d">>}

\* the part-of-speech selections of the sidebar (the default is the first)
PosSelections ==
    {{"meishi", "doushi", "keiyoushi"}, {"meishi"}, {"doushi"}, {}}

\* stop-word sets, as the stop-word builder produces them
StopWordSets == SUBSET {<<"a", "b">>, <<"b", "a">>}

IdleText ==
    /\ main_text_input_area_val = <<>>
    /\ morphemes_data_list_result = <<>>

IdleFilter ==
    /\ target_pos_list = {}
    /\ final_stop_words_set_for_analysis = {}

IdleStopText == custom_stopwords_input_str_from_ui = <<>>

IdleNet ==
    /\ network_node_min_freq_val_ui = 2
    /\ network_edge_min_freq_val_ui = 2
    /\ font_path = TRUE

\* a key that is not in st.session_state
Absent == [py |-> "<no such key>"]

\* before the KWIC tab was ever rendered: neither the session key of line 322 nor
\* the widget (key "kwic_keyword_input_field_tab_v_final") has a value
IdleKwicWidgets ==
    /\ kwic_keyword = Absent
    /\ kwic_keyword_input_field = Absent

IdleKwic ==
    /\ keyword_str = <<>>
    /\ search_key_type_str = "genkei"
    /\ window_int = 5
    /\ IdleKwicWidgets

\* the browser sessions; each has its own st.session_state
Sessions == 1..NumSessions

\* the values True and False stored in st.session_state
PyTrue == [py |-> "True"]
PyFalse == [py |-> "False"]

\* the tagger object MeCab.Tagger(TAGGER_OPTIONS) constructs
TaggerObject == [py |-> "MeCab.Tagger"]

\* the cache of initialize_mecab_tagger_to_session before its first call
CacheEmpty == [cached |-> FALSE]

\* st.session_state of a new session: no key is set
NewSessionState == [mecab_tagger_initialized |-> Absent, tagger_object |-> Absent]

IdleSession ==
    /\ cache_resource = CacheEmpty
    /\ session_state = [s \in Sessions |-> NewSessionState]
    /\ tagger_constructions = 0

-----------------------------------------------------------------------------
(* SpecReport: generate_word_report applied to every analysed text *)

InitReport ==
    /\ main_text_input_area_val \in SeqUpTo(Units, MaxTextLen)
    /\ morphemes_data_list_result =
           perform_morphological_analysis(TRUE, main_text_input_area_val)
    /\ target_pos_list \in PosSelections
    /\ final_stop_words_set_for_analysis \in StopWordSets
    /\ IdleStopText /\ IdleNet /\ IdleKwic
    /\ IdleSession
    /\ pc = "call"
    /\ ret = None

CallReport ==
    /\ pc = "call"
    /\ ret' = generate_word_report(morphemes_data_list_result, target_pos_list,
                                   final_stop_words_set_for_analysis)
    /\ pc' = "returned"
    /\ UNCHANGED <<textVars, filterVars, custom_stopwords_input_str_from_ui,
                   netVars, kwicVars, sessionVars>>

NextReport == CallReport

SpecReport == InitReport /\ [][NextReport]_vars

-----------------------------------------------------------------------------
(* Claims about generate_word_report *)

\* the report filter as the specification states it
PassesReportFilter(m) ==
    /\ m.hinshi \in target_pos_list
    /\ m.genkei \notin final_stop_words_set_for_analysis
    /\ ~(/\ m.hinshi = "meishi"
         /\ m.hinshi_saibunrui1 \in {"hijiritsu", "kazu", "daimeishi", "setsubi",
                                     "sahen_setsuzoku", "fukushi_kanou"})

ReportSurvivors ==
    {i \in DOMAIN morphemes_data_list_result :
        PassesReportFilter(morphemes_data_list_result[i])}

RECURSIVE SumOfRowCounts(_)
SumOfRowCounts(rows) ==
    IF rows = <<>> THEN 0 ELSE Head(rows).shutsugensu + SumOfRowCounts(Tail(rows))

\* C1: the counts of the report's rows sum to the number of morphemes that pass the
\* report filter, the third returned value is that number, and there is exactly one
\* row for each distinct base form that passes.
C1_ReportCountsSumToSurvivors ==
    pc = "returned" =>
        /\ SumOfRowCounts(ret.df) = Cardinality(ReportSurvivors)
        /\ ret.total_target = Cardinality(ReportSurvivors)
        /\ {ret.df[k].tango : k \in DOMAIN ret.df} =
               {morphemes_data_list_result[i].genkei : i \in ReportSurvivors}
        /\ \A j, k \in DOMAIN ret.df : ret.df[j].tango = ret.df[k].tango => j = k

\* a report with a repeated word and a morpheme the filter dropped
C1_Witness ==
    /\ pc = "returned"
    /\ \E k \in DOMAIN ret.df : ret.df[k].shutsugensu >= 2
    /\ Cardinality(ReportSurvivors) < Len(morphemes_data_list_result)
    /\ ret.total_target = Cardinality(ReportSurvivors)

Abs(x) == IF x < 0 THEN -x ELSE x

\* C9: each row's relative frequency is count / (length of the whole sequence) x 100
\* to 3 decimals (here: the nearest thousandth of a percent), and an empty sequence
\* gives an empty report with both totals 0.
C9_FrequencyOverWholeSequence ==
    pc = "returned" =>
        LET n == Len(morphemes_data_list_result)
        IN  /\ \A k \in DOMAIN ret.df :
                  /\ n > 0
                  /\ 2 * Abs(ret.df[k].shutsugen_hindo * n
                             - ret.df[k].shutsugensu * 100000) <= n
            /\ ret.total_all = n
            /\ n = 0 => ret.df = <<>> /\ ret.total_all = 0 /\ ret.total_target = 0

\* a row whose percentage is not exact and whose denominator is not the filtered count
C9_Witness ==
    /\ pc = "returned"
    /\ Cardinality(ReportSurvivors) < Len(morphemes_data_list_result)
    /\ \E k \in DOMAIN ret.df :
           (ret.df[k].shutsugensu * 100000) % Len(morphemes_data_list_result) # 0

-----------------------------------------------------------------------------
(* perform_kwic_search *)

\* seq[start:stop] of Python, for 0 <= start and stop <= len(seq)
py_slice(seq, start, stop) == SubSeq(seq, start + 1, stop)

Max(a, b) == IF a >= b THEN a ELSE b
Min(a, b) == IF a <= b THEN a ELSE b

\* morpheme_item[search_key_type_str]
field_of(morpheme_item, key) ==
    IF key = "genkei" THEN morpheme_item.genkei ELSE morpheme_item.hyousoukei

\* the test of lines 221-223
kwic_match_mutant_case_sensitive(morpheme_item, kw, key) ==
    field_of(morpheme_item, key) = kw

kwic_match(morpheme_item, kw, key) ==
    LET target_text_in_morpheme == lower(field_of(morpheme_item, key))
        keyword_to_compare == lower(kw)
    IN  target_text_in_morpheme = keyword_to_compare

surfaces(ms) == [k \in DOMAIN ms |-> ms[k].hyousoukei]

\* left_ctx_str of line 224, for the 0-based index i
left_ctx_str(all_morphemes, i, window) ==
    LET left_start_idx == Max(0, i - window)
    IN  join(surfaces(py_slice(all_morphemes, left_start_idx, i)))

\* right_ctx_str of lines 225-226, for the 0-based index i
right_ctx_str_mutant_short(all_morphemes, i, window) ==
    LET right_end_idx == Min(Len(all_morphemes), i + window)
    IN  join(surfaces(py_slice(all_morphemes, i + 1, right_end_idx)))

right_ctx_str(all_morphemes, i, window) ==
    LET right_end_idx == Min(Len(all_morphemes), i + 1 + window)
    IN  join(surfaces(py_slice(all_morphemes, i + 1, right_end_idx)))

\* the loop of lines 220-227 from the 0-based index i on
RECURSIVE kwic_scan(_, _, _, _, _)
kwic_scan(all_morphemes, kw, key, window, i) ==
    IF i >= Len(all_morphemes) THEN <<>>
    ELSE LET morpheme_item == all_morphemes[i + 1]
             rest == kwic_scan(all_morphemes, kw, key, window, i + 1)
         IN  IF kwic_match(morpheme_item, kw, key)
             THEN <<[hidari_bunmyaku |-> left_ctx_str(all_morphemes, i, window),
                     keyword |-> morpheme_item.hyousoukei,
                     migi_bunmyaku |-> right_ctx_str(all_morphemes, i, window)]>>
                  \o rest
             ELSE rest

perform_kwic_search(all_morphemes, kw, key, window) ==
    IF strip(kw) = <<>> \/ all_morphemes = <<>> THEN <<>>
    ELSE kwic_scan(all_morphemes, kw, key, window, 0)

-----------------------------------------------------------------------------
(* SpecKwic: perform_kwic_search applied to every analysed text *)

KwicUnits == {<<"A", "b">>, <<"a", "b">>, <<"b">>, <<"c">>, <<IDEOGRAPHIC_SPACE>>}

\* keywords a caller can pass: empty, blank, padded, and in either letter case
Keywords ==
    {<<>>, <<IDEOGRAPHIC_SPACE>>, <<"a", "b">>, <<"A", "b">>, <<"A", "B">>,
     <<" ", "a", "b">>, <<"b">>, <<"b", "a">>, <<"c">>}

InitKwic ==
    /\ main_text_input_area_val \in SeqUpTo(KwicUnits, MaxTextLen)
    /\ morphemes_data_list_result =
           perform_morphological_analysis(TRUE, main_text_input_area_val)
    /\ keyword_str \in Keywords
    /\ search_key_type_str \in {"genkei", "hyousoukei"}
    /\ window_int \in 1..MaxWindow
    /\ IdleKwicWidgets
    /\ IdleFilter /\ IdleStopText /\ IdleNet
    /\ IdleSession
    /\ pc = "call"
    /\ ret = None

CallKwic ==
    /\ pc = "call"
    /\ ret' = perform_kwic_search(morphemes_data_list_result, keyword_str,
                                  search_key_type_str, window_int)
    /\ pc' = "returned"
    /\ UNCHANGED <<textVars, filterVars, custom_stopwords_input_str_from_ui,
                   netVars, kwicVars, sessionVars>>

NextKwic == CallKwic

SpecKwic == InitKwic /\ [][NextKwic]_vars

-----------------------------------------------------------------------------
(* Claims about perform_kwic_search *)

\* the 1-based positions whose selected field equals the keyword, letter case aside
KwicMatches ==
    {p \in DOMAIN morphemes_data_list_result :
        LET m == morphemes_data_list_result[p]
            f == IF search_key_type_str = "genkei" THEN m.genkei ELSE m.hyousoukei
        IN  /\ Len(f) = Len(keyword_str)
            /\ \A c \in DOMAIN f : lower_char(f[c]) = lower_char(keyword_str[c])}

\* the k-th smallest element of KwicMatches
NthMatch(k) ==
    CHOOSE p \in KwicMatches : Cardinality({q \in KwicMatches : q < p}) = k - 1

\* the rows are those of the matching positions, in text order
RowsAreTheMatches ==
    /\ Len(ret) = Cardinality(KwicMatches)
    /\ \A k \in DOMAIN ret :
           ret[k].keyword = morphemes_data_list_result[NthMatch(k)].hyousoukei

\* C2 as stated: one row for exactly the matching positions, in text order, and an
\* empty result for an empty keyword or an empty sequence.
C2_Original_RowsForExactlyTheMatches ==
    pc = "returned" =>
        /\ RowsAreTheMatches
        /\ (keyword_str = <<>> \/ morphemes_data_list_result = <<>>) => ret = <<>>

\* C2 amended: a keyword that is empty or only white space, or an empty sequence,
\* yields an empty result; for every other keyword there is one row for exactly the
\* matching positions, in text order.
C2_RowsForExactlyTheMatchesUnlessBlank ==
    pc = "returned" =>
        IF (\A c \in DOMAIN keyword_str : isspace(keyword_str[c]))
              \/ morphemes_data_list_result = <<>>
        THEN ret = <<>>
        ELSE RowsAreTheMatches

\* two matches that differ from the keyword in letter case, and a non-match
C2_Witness ==
    /\ pc = "returned"
    /\ Len(ret) >= 2
    /\ \E k \in DOMAIN ret : ret[k].keyword # keyword_str
    /\ Cardinality(KwicMatches) < Len(morphemes_data_list_result)

RECURSIVE ConcatSurfaces(_, _)
ConcatSurfaces(from, to) ==
    IF from > to THEN <<>>
    ELSE morphemes_data_list_result[from].hyousoukei \o ConcatSurfaces(from + 1, to)

\* C3: for the match at 0-based index i (position p = i + 1) the left context is the
\* surfaces of indices [max(0, i - w), i) and the right context those of
\* (i, min(length, i + 1 + w)); each side holds at most w morphemes; a match at
\* index 0 has an empty left context, a match at the last index an empty right one.
C3_ContextWindows ==
    pc = "returned" =>
        \A k \in DOMAIN ret :
            LET p == NthMatch(k)
                n == Len(morphemes_data_list_result)
                lo == IF p - window_int < 1 THEN 1 ELSE p - window_int
                hi == IF p + window_int > n THEN n ELSE p + window_int
            IN  /\ ret[k].hidari_bunmyaku = ConcatSurfaces(lo, p - 1)
                /\ ret[k].migi_bunmyaku = ConcatSurfaces(p + 1, hi)
                /\ (p - 1) - lo + 1 <= window_int
                /\ hi - (p + 1) + 1 <= window_int
                /\ p = 1 => ret[k].hidari_bunmyaku = <<>>
                /\ p = n => ret[k].migi_bunmyaku = <<>>

\* a match in the middle whose window is cut on neither side, and one at index 0
C3_Witness ==
    /\ pc = "returned"
    /\ Len(morphemes_data_list_result) = 3
    /\ window_int = 1
    /\ \E k \in DOMAIN ret :
           /\ ret[k].hidari_bunmyaku # <<>>
           /\ ret[k].migi_bunmyaku # <<>>
    /\ \E k \in DOMAIN ret : ret[k].hidari_bunmyaku = <<>>

-----------------------------------------------------------------------------
(* generate_cooccurrence_network_html *)

\* ord(c): Python compares strings by code point ("." is U+3002, "_" is U+3000)
ord(c) ==
    CASE c = "\n" -> 10
      [] c = " " -> 32
      [] c = "*" -> 42
      [] c = "1" -> 49
      [] c = "A" -> 65
      [] c = "B" -> 66
      [] c = "a" -> 97
      [] c = "b" -> 98
      [] c = "c" -> 99
      [] c = "d" -> 100
      [] c = IDEOGRAPHIC_SPACE -> 12288
      [] c = "." -> 12290
      [] OTHER -> 65535

\* s < t for Python strings
RECURSIVE str_less(_, _)
str_less(s, t) ==
    IF t = <<>> THEN FALSE
    ELSE IF s = <<>> THEN TRUE
    ELSE IF Head(s) # Head(t) THEN ord(Head(s)) < ord(Head(t))
    ELSE str_less(Tail(s), Tail(t))

\* sorted(words)
RECURSIVE py_sorted(_)
py_sorted(words) ==
    IF words = <<>> THEN <<>>
    ELSE LET least == CHOOSE i \in DOMAIN words :
                          /\ \A j \in DOMAIN words : ~str_less(words[j], words[i])
                          /\ \A j \in 1..(i - 1) : words[j] # words[i]
         IN  <<words[least]>> \o py_sorted(RemoveAt(words, least))

\* list(set(words)): every word once
RECURSIVE py_set(_)
py_set(words) ==
    IF words = <<>> THEN <<>>
    ELSE LET before == py_set(SubSeq(words, 1, Len(words) - 1))
             w == words[Len(words)]
         IN  IF \E k \in DOMAIN before : before[k] = w THEN before ELSE Append(before, w)

\* sorted(list(set(words_in_sentence))) of line 194
sorted_word_set_mutant_no_set(words) == py_sorted(words)

sorted_word_set(words) == py_sorted(py_set(words))

\* itertools.combinations(items, 2), in its order
RECURSIVE combinations2(_)
combinations2(items) ==
    IF Len(items) < 2 THEN <<>>
    ELSE [k \in 1..(Len(items) - 1) |-> <<items[1], items[k + 1]>>]
         \o combinations2(Tail(items))

\* the noun sub-classifications the network skips (line 180)
NETWORK_EXCLUDED_SUB1 ==
    {"hijiritsu", "kazu", "daimeishi", "setsubi", "sahen_setsuzoku", "fukushi_kanou"}

\* temp_words_for_nodes: the loop of lines 178-182
RECURSIVE temp_words_for_nodes_mutant_no_length_rule(_, _, _)
temp_words_for_nodes_mutant_no_length_rule(all_morphemes, pos_list, stop_words_set) ==
    IF all_morphemes = <<>> THEN <<>>
    ELSE LET m == Head(all_morphemes)
             rest == temp_words_for_nodes_mutant_no_length_rule(
                         Tail(all_morphemes), pos_list, stop_words_set)
         IN  IF m.hinshi \in pos_list /\ m.genkei \notin stop_words_set
             THEN IF m.hinshi = "meishi" /\ m.hinshi_saibunrui1 \in NETWORK_EXCLUDED_SUB1
                  THEN rest
                  ELSE <<m.genkei>> \o rest
             ELSE rest

RECURSIVE temp_words_for_nodes(_, _, _)
temp_words_for_nodes(all_morphemes, pos_list, stop_words_set) ==
    IF all_morphemes = <<>> THEN <<>>
    ELSE LET m == Head(all_morphemes)
             rest == temp_words_for_nodes(Tail(all_morphemes), pos_list, stop_words_set)
         IN  IF m.hinshi \in pos_list /\ m.genkei \notin stop_words_set
             THEN IF m.hinshi = "meishi" /\ m.hinshi_saibunrui1 \in NETWORK_EXCLUDED_SUB1
                  THEN rest
                  ELSE IF Len(m.genkei) < 2 /\ m.hinshi # "meishi"
                  THEN rest
                  ELSE <<m.genkei>> \o rest
             ELSE rest

\* items of a Counter with count >= least, in the Counter's order
RECURSIVE items_at_least(_, _)
items_at_least(items, least) ==
    IF items = <<>> THEN <<>>
    ELSE IF Head(items).count >= least
         THEN <<Head(items)>> \o items_at_least(Tail(items), least)
         ELSE items_at_least(Tail(items), least)

\* node_candidates of line 183
node_candidates(all_morphemes, pos_list, stop_words_set, node_min_freq) ==
    items_at_least(Counter(temp_words_for_nodes(all_morphemes, pos_list, stop_words_set)),
                   node_min_freq)

\* word in node_candidates
is_candidate(candidates, word) == \E k \in DOMAIN candidates : candidates[k].word = word

\* the characters of the class [。\n！？] ("." is 。, "!" is ！, "?" is ？)
SENTENCE_TERMINATORS == {<<".">>, <<"\n">>, <<"!">>, <<"?">>}

RECURSIVE skip_terminators(_)
skip_terminators(text) ==
    IF text # <<>> /\ Head(text) \in SENTENCE_TERMINATORS
    THEN skip_terminators(Tail(text))
    ELSE text

\* re.split(r'[。\n！？]+', text): the pieces between runs of terminators, the empty
\* pieces at either end included
RECURSIVE re_split_from(_, _)
re_split_from(text, piece) ==
    IF text = <<>> THEN <<piece>>
    ELSE IF Head(text) \in SENTENCE_TERMINATORS
         THEN <<piece>> \o re_split_from(skip_terminators(text), <<>>)
         ELSE re_split_from(Tail(text), Append(piece, Head(text)))

re_split_sentences(text) == re_split_from(text, <<>>)

\* s.strip() on a text: the white-space units at either end go
IsSpaceUnit(u) == \A i \in DOMAIN u : isspace(u[i])

RECURSIVE lstrip_units(_)
lstrip_units(text) ==
    IF text # <<>> /\ IsSpaceUnit(Head(text)) THEN lstrip_units(Tail(text)) ELSE text

RECURSIVE rstrip_units(_)
rstrip_units(text) ==
    IF text # <<>> /\ IsSpaceUnit(text[Len(text)])
    THEN rstrip_units(SubSeq(text, 1, Len(text) - 1))
    ELSE text

strip_units(text) == rstrip_units(lstrip_units(text))

\* [s.strip() for s in sentences if s.strip()]
RECURSIVE stripped_nonempty(_)
stripped_nonempty(pieces) ==
    IF pieces = <<>> THEN <<>>
    ELSE IF strip_units(Head(pieces)) # <<>>
         THEN <<strip_units(Head(pieces))>> \o stripped_nonempty(Tail(pieces))
         ELSE stripped_nonempty(Tail(pieces))

\* sentences of line 185
sentences_of(text_input_co) == stripped_nonempty(re_split_sentences(text_input_co))

\* words_in_sentence: the loop of lines 188-193 over the nodes of one sentence
RECURSIVE words_in_nodes(_, _)
words_in_nodes(nodes, candidates) ==
    IF nodes = <<>> THEN <<>>
    ELSE LET node_s == Head(nodes)
             rest == words_in_nodes(Tail(nodes), candidates)
         IN  IF node_s.surface # <<>> /\ is_candidate(candidates, original_form(node_s))
             THEN <<original_form(node_s)>> \o rest
             ELSE rest

words_in_sentence(sentence, candidates) == words_in_nodes(parseToNode(sentence), candidates)

RECURSIVE CounterAddAll(_, _)
CounterAddAll(items, keys) ==
    IF keys = <<>> THEN items
    ELSE CounterAddAll(CounterAdd(items, Head(keys)), Tail(keys))

\* cooccurrence_counts_map: the loop of lines 187-194
RECURSIVE cooccurrence_counts(_, _, _)
cooccurrence_counts(sentences, candidates, counts) ==
    IF sentences = <<>> THEN counts
    ELSE cooccurrence_counts(
             Tail(sentences), candidates,
             CounterAddAll(counts,
                 combinations2(sorted_word_set(words_in_sentence(Head(sentences),
                                                                 candidates)))))

cooccurrence_counts_map(text_input_co, candidates) ==
    cooccurrence_counts(sentences_of(text_input_co), candidates, <<>>)

\* the edges added by the loop of lines 206-209
added_edges(counts_map, edge_min_freq) == items_at_least(counts_map, edge_min_freq)

\* the return of line 210: None when no edge was added
graph_or_none_mutant_edgeless(candidates, edges) ==
    [nodes |-> candidates, edges |-> edges]

graph_or_none(candidates, edges) ==
    IF Len(edges) = 0 THEN None ELSE [nodes |-> candidates, edges |-> edges]

\* generate_cooccurrence_network_html: None, or the graph the html is generated from
generate_cooccurrence_network_html(tagger_available, all_morphemes, text_input_co, font_path_co, pos_list, stop_words_set, node_min_freq, edge_min_freq) ==
    IF all_morphemes = <<>> \/ ~tagger_available \/ strip_units(text_input_co) = <<>>
    THEN None
    ELSE IF ~font_path_co THEN None
    ELSE LET candidates == node_candidates(all_morphemes, pos_list, stop_words_set,
                                           node_min_freq)
         IN  IF Len(candidates) < 2 THEN None
             ELSE LET counts_map == cooccurrence_counts_map(text_input_co, candidates)
                  IN  IF counts_map = <<>> THEN None
                      ELSE graph_or_none(candidates, added_edges(counts_map, edge_min_freq))

-----------------------------------------------------------------------------
(* SpecNet: generate_cooccurrence_network_html applied to every analysed text *)

\* two nouns, a two-character verb, a one-character verb and the full stop
NetUnits == {<<"A", "b">>, <<"a", "b">>, <<"b">>, <<"a">>, <<".">>}

\* the options of a run: the part-of-speech selection, the stop words, whether the
\* font file exists, and the two sliders (least value 1, default 2: lines 258-259)
NetOption(pos, stop, font, node_min, edge_min) ==
    [pos |-> pos, stop |-> stop, font |-> font, node_min |-> node_min,
     edge_min |-> edge_min]

NetOptions ==
    LET default_target_pos == {"meishi", "doushi", "keiyoushi"}
    IN  {NetOption(default_target_pos, {}, TRUE, 1, 2),
         NetOption(default_target_pos, {}, TRUE, 2, 1),
         NetOption(default_target_pos, {<<"a", "b">>}, TRUE, 1, 1),
         NetOption({"doushi"}, {}, TRUE, 1, 1),
         NetOption(default_target_pos, {}, FALSE, 1, 1)}

InitNet ==
    /\ main_text_input_area_val \in SeqUpTo(NetUnits, MaxNetTextLen)
    /\ morphemes_data_list_result =
           perform_morphological_analysis(TRUE, main_text_input_area_val)
    /\ \E o \in NetOptions :
           /\ target_pos_list = o.pos
           /\ final_stop_words_set_for_analysis = o.stop
           /\ font_path = o.font
           /\ network_node_min_freq_val_ui = o.node_min
           /\ network_edge_min_freq_val_ui = o.edge_min
    /\ IdleStopText /\ IdleKwic
    /\ IdleSession
    /\ pc = "call"
    /\ ret = None

CallNet ==
    /\ pc = "call"
    /\ ret' = generate_cooccurrence_network_html(TRUE,
                  morphemes_data_list_result, main_text_input_area_val, font_path,
                  target_pos_list, final_stop_words_set_for_analysis,
                  network_node_min_freq_val_ui, network_edge_min_freq_val_ui)
    /\ pc' = "returned"
    /\ UNCHANGED <<textVars, filterVars, custom_stopwords_input_str_from_ui,
                   netVars, kwicVars, sessionVars>>

NextNet == CallNet

SpecNet == InitNet /\ [][NextNet]_vars

-----------------------------------------------------------------------------
(* SpecNetPairs: the same call on longer texts of three node-worthy words, so that
   several pairs with different counts meet in one text *)

PairUnits == {<<"A", "b">>, <<"a", "b">>, <<"b">>, <<".">>}

PairOptions ==
    LET default_target_pos == {"meishi", "doushi", "keiyoushi"}
    IN  {NetOption(default_target_pos, {}, TRUE, 1, 1),
         NetOption(default_target_pos, {}, TRUE, 1, 2),
         NetOption(default_target_pos, {}, TRUE, 2, 2)}

InitNetPairs ==
    /\ main_text_input_area_val \in SeqUpTo(PairUnits, MaxPairTextLen)
    /\ morphemes_data_list_result =
           perform_morphological_analysis(TRUE, main_text_input_area_val)
    /\ \E o \in PairOptions :
           /\ target_pos_list = o.pos
           /\ final_stop_words_set_for_analysis = o.stop
           /\ font_path = o.font
           /\ network_node_min_freq_val_ui = o.node_min
           /\ network_edge_min_freq_val_ui = o.edge_min
    /\ IdleStopText /\ IdleKwic
    /\ IdleSession
    /\ pc = "call"
    /\ ret = None

SpecNetPairs == InitNetPairs /\ [][NextNet]_vars

-----------------------------------------------------------------------------
(* Claims about generate_cooccurrence_network_html *)

\* the network filter as the specification states it
PassesNetworkFilter(m) ==
    /\ PassesReportFilter(m)
    /\ ~(Len(m.genkei) < 2 /\ m.hinshi # "meishi")

\* how often a base form occurs among the morphemes that pass the network filter
NetOccurrences(w) ==
    Cardinality({i \in DOMAIN morphemes_data_list_result :
                    /\ PassesNetworkFilter(morphemes_data_list_result[i])
                    /\ morphemes_data_list_result[i].genkei = w})

\* the base forms that reach node_min_freq after filtering
QualifiedWords ==
    {w \in {morphemes_data_list_result[i].genkei : i \in DOMAIN morphemes_data_list_result} :
        NetOccurrences(w) >= network_node_min_freq_val_ui}

IsTerminatorAt(k) == main_text_input_area_val[k] \in {<<".">>, <<"\n">>, <<"!">>, <<"?">>}

\* the sentences: the maximal stretches <<i, j>> of the text without a terminator
SentenceSpans ==
    LET n == Len(main_text_input_area_val)
    IN  {sp \in (1..n) \X (1..n) :
            /\ sp[1] <= sp[2]
            /\ \A k \in sp[1]..sp[2] : ~IsTerminatorAt(k)
            /\ sp[1] = 1 \/ IsTerminatorAt(sp[1] - 1)
            /\ sp[2] = n \/ IsTerminatorAt(sp[2] + 1)}

\* the base forms of the tokens of a sentence
TokensOfSpan(sp) ==
    {original_form([surface |-> main_text_input_area_val[k],
                    feature |-> Dictionary(main_text_input_area_val[k])]) :
        k \in {q \in sp[1]..sp[2] : ~IsWhiteUnit(main_text_input_area_val[q])}}

\* the number of sentences that hold both a and b
SentencesWithBoth(a, b) ==
    Cardinality({sp \in SentenceSpans : a \in TokensOfSpan(sp) /\ b \in TokensOfSpan(sp)})

\* the function gets as far as its node candidates (lines 175-176 do not return)
ReachesNodeCandidates == morphemes_data_list_result # <<>> /\ font_path

\* the code's node candidates for the inputs of the state
CodeCandidates ==
    node_candidates(morphemes_data_list_result, target_pos_list,
                    final_stop_words_set_for_analysis, network_node_min_freq_val_ui)

\* the count a Counter holds for the unordered pair {a, b}
PairCountIn(counts, a, b) ==
    IF \E k \in DOMAIN counts : counts[k].word \in {<<a, b>>, <<b, a>>}
    THEN LET k == CHOOSE k \in DOMAIN counts : counts[k].word \in {<<a, b>>, <<b, a>>}
         IN  counts[k].count
    ELSE 0

\* the number of the given token sets that hold both a and b
HoldBoth(tokens, a, b) ==
    Cardinality({sp \in DOMAIN tokens : a \in tokens[sp] /\ b \in tokens[sp]})

EdgeEmitted(a, b) ==
    /\ ret # None
    /\ \E k \in DOMAIN ret.edges : ret.edges[k].word \in {<<a, b>>, <<b, a>>}

\* C4: for every unordered pair of distinct node candidates the co-occurrence count is
\* the number of sentences whose token set holds both words, and the pair's edge is
\* emitted if and only if that count is at least edge_min_freq.
C4_PairCountIsSentenceCount ==
    (pc = "returned" /\ ReachesNodeCandidates) =>
        LET candidates == CodeCandidates
            words == {candidates[k].word : k \in DOMAIN candidates}
            counts == cooccurrence_counts_map(main_text_input_area_val, candidates)
            tokens == [sp \in SentenceSpans |-> TokensOfSpan(sp)]
        IN  /\ \A a, b \in words :
                   a # b =>
                       /\ PairCountIn(counts, a, b) = HoldBoth(tokens, a, b)
                       /\ EdgeEmitted(a, b) <=>
                              HoldBoth(tokens, a, b) >= network_edge_min_freq_val_ui
            /\ \A j, k \in DOMAIN counts :
                   (/\ counts[j].word[1] = counts[k].word[2]
                    /\ counts[j].word[2] = counts[k].word[1]) => j = k

\* the example of the specification: pair {a, b} in two sentences and emitted, pair
\* {a, c} in one sentence and not emitted, with edge_min_freq = 2
C4_Witness ==
    /\ pc = "returned"
    /\ ReachesNodeCandidates
    /\ network_edge_min_freq_val_ui = 2
    /\ ret # None
    /\ LET words == {CodeCandidates[k].word : k \in DOMAIN CodeCandidates}
       IN  \E a, b, c \in words :
               /\ a # b /\ a # c /\ b # c
               /\ SentencesWithBoth(a, b) = 2 /\ EdgeEmitted(a, b)
               /\ SentencesWithBoth(a, c) = 1 /\ ~EdgeEmitted(a, c)

\* C5: when a graph is produced every node is a base form that passed the network
\* filter at least node_min_freq times, and both ends of every edge are nodes.
C5_NodesQualifiedEdgesOnNodes ==
    (pc = "returned" /\ ret # None) =>
        LET nodes == {ret.nodes[k].word : k \in DOMAIN ret.nodes}
        IN  /\ \A w \in nodes : NetOccurrences(w) >= network_node_min_freq_val_ui
            /\ \A w \in nodes : w \in QualifiedWords
            /\ \A k \in DOMAIN ret.edges :
                   /\ ret.edges[k].word[1] \in nodes
                   /\ ret.edges[k].word[2] \in nodes

\* a graph with node_min_freq = 2, while a one-character verb of the text was kept
\* out of the nodes by the filter
C5_Witness ==
    /\ pc = "returned"
    /\ ret # None
    /\ Len(ret.edges) >= 1
    /\ network_node_min_freq_val_ui = 2
    /\ \E i \in DOMAIN morphemes_data_list_result :
           /\ morphemes_data_list_result[i].hinshi = "doushi"
           /\ ~PassesNetworkFilter(morphemes_data_list_result[i])

\* some pair of the given words shares at least edge_min_freq of the token sets
SomePairQualifiesIn(words, tokens) ==
    \E a, b \in words : a # b /\ HoldBoth(tokens, a, b) >= network_edge_min_freq_val_ui

SomePairQualifies ==
    SomePairQualifiesIn(QualifiedWords, [sp \in SentenceSpans |-> TokensOfSpan(sp)])

\* C6: None is returned whenever fewer than 2 base forms reach node_min_freq after
\* filtering and whenever no pair reaches edge_min_freq; a graph is returned only
\* when at least 2 node candidates and at least 1 qualifying edge exist.
C6_NoGraphBelowThresholds ==
    pc = "returned" =>
        LET qualified == QualifiedWords
            some_pair == Cardinality(qualified) >= 2 /\ SomePairQualifies
        IN  /\ Cardinality(qualified) < 2 => ret = None
            /\ ~some_pair => ret = None
            /\ ret # None =>
                   /\ Cardinality(qualified) >= 2
                   /\ some_pair
                   /\ Len(ret.nodes) >= 2
                   /\ Len(ret.edges) >= 1

\* two candidates that share a sentence, but less often than edge_min_freq: None
C6_Witness ==
    /\ pc = "returned"
    /\ ReachesNodeCandidates
    /\ Cardinality(QualifiedWords) >= 2
    /\ \E a, b \in QualifiedWords : a # b /\ SentencesWithBoth(a, b) = 1
    /\ ~SomePairQualifies
    /\ ret = None

-----------------------------------------------------------------------------
(* The stop-word set of the sidebar and generate_wordcloud_image's corpus *)

\* re.split(r'[,\n]', s): the pieces between single separators, empty ones included
RECURSIVE re_split_comma_newline_from(_, _)
re_split_comma_newline_from(s, piece) ==
    IF s = <<>> THEN <<piece>>
    ELSE IF Head(s) \in {",", "\n"}
         THEN <<piece>> \o re_split_comma_newline_from(Tail(s), <<>>)
         ELSE re_split_comma_newline_from(Tail(s), Append(piece, Head(s)))

re_split_comma_newline(s) == re_split_comma_newline_from(s, <<>>)

\* word.strip().lower() of line 252
normalize_stop_word_mutant_no_lower(word) == strip(word)

normalize_stop_word(word) == lower(strip(word))

\* custom_list_sw_from_ui of line 252, as the set it is added to
custom_list_sw_from_ui(input_str) ==
    LET pieces == re_split_comma_newline(input_str)
    IN  {normalize_stop_word(pieces[k]) :
            k \in {j \in DOMAIN pieces : strip(pieces[j]) # <<>>}}

\* final_stop_words_set_for_analysis after lines 250-253
build_final_stop_words_set(input_str) ==
    IF strip(input_str) # <<>> THEN {} \cup custom_list_sw_from_ui(input_str) ELSE {}

\* the noun sub-classifications the word cloud skips (line 163)
WORDCLOUD_EXCLUDED_SUB1_mutant_as_report == REPORT_EXCLUDED_SUB1

WORDCLOUD_EXCLUDED_SUB1 == {"kazu", "hijiritsu", "daimeishi", "setsubi"}

\* wordcloud_words: the loop of lines 161-164
RECURSIVE wordcloud_words(_, _, _)
wordcloud_words(all_morphemes, pos_list, stop_words_set) ==
    IF all_morphemes = <<>> THEN <<>>
    ELSE LET m == Head(all_morphemes)
             rest == wordcloud_words(Tail(all_morphemes), pos_list, stop_words_set)
         IN  IF m.hinshi \in pos_list /\ m.genkei \notin stop_words_set
             THEN IF m.hinshi = "meishi" /\ m.hinshi_saibunrui1 \in WORDCLOUD_EXCLUDED_SUB1
                  THEN rest
                  ELSE <<m.genkei>> \o rest
             ELSE rest

\* " ".join(words)
RECURSIVE join_with_space(_)
join_with_space(words) ==
    IF words = <<>> THEN <<>>
    ELSE IF Len(words) = 1 THEN Head(words)
    ELSE Head(words) \o <<" ">> \o join_with_space(Tail(words))

\* wordcloud_text_input_str of line 165; None for the returns of lines 158, 159, 166
wordcloud_text_input_str(all_morphemes, font_path_wc, pos_list, stop_words_set) ==
    IF all_morphemes = <<>> THEN None
    ELSE IF ~font_path_wc THEN None
    ELSE LET words == wordcloud_words(all_morphemes, pos_list, stop_words_set)
         IN  IF strip(join_with_space(words)) = <<>> THEN None
             ELSE [words |-> words, text |-> join_with_space(words)]

-----------------------------------------------------------------------------
(* SpecStopWords: the sidebar builds the stop-word set from the text area, then the
   button runs the analyzers with it *)

\* the characters typed into the stop-word text area
StopChars == {"A", "a", "b", ",", "\n", " "}

\* a capitalised unknown noun, the same word in lower case, and a verb
StopUnits == {<<"A", "b">>, <<"a", "b">>, <<"b">>}

InitStopWords ==
    /\ custom_stopwords_input_str_from_ui \in SeqUpTo(StopChars, MaxStopLen)
    /\ main_text_input_area_val \in SeqUpTo(StopUnits, MaxStopTextLen)
    /\ morphemes_data_list_result = <<>>
    /\ target_pos_list = {"meishi", "doushi", "keiyoushi"}
    /\ final_stop_words_set_for_analysis = {}
    /\ network_node_min_freq_val_ui = 1
    /\ network_edge_min_freq_val_ui = 1
    /\ font_path = TRUE
    /\ IdleKwic
    /\ IdleSession
    /\ pc = "sidebar"
    /\ ret = None

\* lines 250-253
BuildStopWords ==
    /\ pc = "sidebar"
    /\ final_stop_words_set_for_analysis' =
           build_final_stop_words_set(custom_stopwords_input_str_from_ui)
    /\ pc' = "button"
    /\ UNCHANGED <<textVars, target_pos_list, custom_stopwords_input_str_from_ui,
                   netVars, kwicVars, sessionVars, ret>>

\* lines 268-318 with the tagger available: tokenize, then report, word cloud, network
RunAnalyzers ==
    /\ pc = "button"
    /\ LET morphemes == perform_morphological_analysis(TRUE, main_text_input_area_val)
       IN  /\ morphemes_data_list_result' = morphemes
           /\ ret' = IF strip_units(main_text_input_area_val) = <<>> \/ morphemes = <<>>
                     THEN None
                     ELSE [report |-> generate_word_report(morphemes, target_pos_list,
                                          final_stop_words_set_for_analysis),
                           wordcloud |-> wordcloud_text_input_str(morphemes, font_path,
                                          target_pos_list,
                                          final_stop_words_set_for_analysis),
                           network |-> generate_cooccurrence_network_html(TRUE,
                                          morphemes, main_text_input_area_val, font_path,
                                          target_pos_list,
                                          final_stop_words_set_for_analysis,
                                          network_node_min_freq_val_ui,
                                          network_edge_min_freq_val_ui)]
    /\ pc' = "returned"
    /\ UNCHANGED <<main_text_input_area_val, filterVars,
                   custom_stopwords_input_str_from_ui, netVars, kwicVars, sessionVars>>

NextStopWords == BuildStopWords \/ RunAnalyzers

SpecStopWords == InitStopWords /\ [][NextStopWords]_vars

-----------------------------------------------------------------------------
(* Claims about the stop-word set *)

IsSeparatorAt(k) == custom_stopwords_input_str_from_ui[k] \in {",", "\n"}

IsBlankAt(k) == custom_stopwords_input_str_from_ui[k] \in {" ", "\t", "\n", IDEOGRAPHIC_SPACE}

\* the stretches <<i, j>> of the text area that are a piece with its surrounding
\* white space trimmed: no separator inside, a non-blank character at either end,
\* and only blanks between the stretch and the separators (or ends) around it
TrimmedPieces ==
    LET str == custom_stopwords_input_str_from_ui
        n == Len(str)
    IN  {sp \in (1..n) \X (1..n) :
            /\ sp[1] <= sp[2]
            /\ \A k \in sp[1]..sp[2] : ~IsSeparatorAt(k)
            /\ ~IsBlankAt(sp[1]) /\ ~IsBlankAt(sp[2])
            /\ \E lo \in 1..sp[1] :
                   /\ lo = 1 \/ IsSeparatorAt(lo - 1)
                   /\ \A k \in lo..(sp[1] - 1) : IsBlankAt(k) /\ ~IsSeparatorAt(k)
            /\ \E hi \in sp[2]..n :
                   /\ hi = n \/ IsSeparatorAt(hi + 1)
                   /\ \A k \in (sp[2] + 1)..hi : IsBlankAt(k) /\ ~IsSeparatorAt(k)}

\* the words the user entered, trimmed
EnteredWords ==
    {SubSeq(custom_stopwords_input_str_from_ui, sp[1], sp[2]) : sp \in TrimmedPieces}

LowerCased(w) ==
    [c \in DOMAIN w |-> IF w[c] = "A" THEN "a" ELSE IF w[c] = "B" THEN "b" ELSE w[c]]

\* C7: the stop-word set is exactly the set of the non-empty pieces of the text area,
\* split on commas and newlines, each trimmed and lower-cased; an empty or
\* white-space-only text area gives the empty set.
C7_StopWordSetIsNormalizedPieces ==
    pc # "sidebar" =>
        /\ final_stop_words_set_for_analysis = {LowerCased(w) : w \in EnteredWords}
        /\ <<>> \notin final_stop_words_set_for_analysis
        /\ (\A k \in DOMAIN custom_stopwords_input_str_from_ui : IsBlankAt(k)) =>
               final_stop_words_set_for_analysis = {}

\* two entries that differ only in letter case collapse into one stop word
C7_Witness ==
    /\ pc = "button"
    /\ Cardinality(EnteredWords) = 2
    /\ Cardinality(final_stop_words_set_for_analysis) = 1

\* the base forms the three analyzers let through
BaseFormsShown ==
    {ret.report.df[k].tango : k \in DOMAIN ret.report.df}
    \cup (IF ret.wordcloud = None THEN {}
          ELSE {ret.wordcloud.words[k] : k \in DOMAIN ret.wordcloud.words})
    \cup {CodeCandidates[k].word : k \in DOMAIN CodeCandidates}

\* C8: every word entered in the stop-word text area is treated as a stop word: no
\* morpheme whose base form is an entered word (trimmed) appears in the frequency
\* report, the word-cloud corpus or the co-occurrence node candidates.
C8_EnteredWordsAreStopped ==
    (pc = "returned" /\ ret # None) =>
        \A w \in EnteredWords : w \notin BaseFormsShown

-----------------------------------------------------------------------------
(* SpecWordCloud: the button runs the analyzers on every text, part-of-speech
   selection and stop-word set *)

\* the units of SpecReport and a numeral
WordCloudUnits == Units \cup {<<"1">>}

InitWordCloud ==
    /\ main_text_input_area_val \in SeqUpTo(WordCloudUnits, MaxTextLen)
    /\ morphemes_data_list_result = <<>>
    /\ target_pos_list \in PosSelections
    /\ final_stop_words_set_for_analysis \in StopWordSets
    /\ custom_stopwords_input_str_from_ui = <<>>
    /\ network_node_min_freq_val_ui = 1
    /\ network_edge_min_freq_val_ui = 1
    /\ font_path = TRUE
    /\ IdleKwic
    /\ IdleSession
    /\ pc = "button"
    /\ ret = None

NextWordCloud == RunAnalyzers

SpecWordCloud == InitWordCloud /\ [][NextWordCloud]_vars

-----------------------------------------------------------------------------
(* Claims about the word-cloud corpus *)

\* the positions of the morphemes the word cloud is said to keep
WordCloudKept ==
    {i \in DOMAIN morphemes_data_list_result :
        LET m == morphemes_data_list_result[i]
        IN  /\ m.hinshi \in target_pos_list
            /\ m.genkei \notin final_stop_words_set_for_analysis
            /\ ~(m.hinshi = "meishi"
                 /\ m.hinshi_saibunrui1 \in {"kazu", "hijiritsu", "daimeishi", "setsubi"})}

\* the position of the k-th kept morpheme, in text order
KthKept(k) ==
    CHOOSE i \in WordCloudKept : Cardinality({j \in WordCloudKept : j <= i}) = k

RECURSIVE CorpusOffset(_)
\* the number of characters of the corpus before its k-th word
CorpusOffset(k) ==
    IF k = 1 THEN 0
    ELSE CorpusOffset(k - 1) + Len(morphemes_data_list_result[KthKept(k - 1)].genkei) + 1

\* text is the base forms of the kept morphemes, in text order, one space between
IsSpaceJoinedCorpus(text) ==
    LET n == Cardinality(WordCloudKept)
    IN  /\ n >= 1
        /\ Len(text) = CorpusOffset(n) + Len(morphemes_data_list_result[KthKept(n)].genkei)
        /\ \A k \in 1..n :
               LET w == morphemes_data_list_result[KthKept(k)].genkei
               IN  /\ \A c \in DOMAIN w : text[CorpusOffset(k) + c] = w[c]
                   /\ k > 1 => text[CorpusOffset(k)] = " "

\* the kept nouns the report and the co-occurrence filter are said to exclude
IsVerbalOrAdverbialNoun(m) ==
    m.hinshi = "meishi" /\ m.hinshi_saibunrui1 \in {"sahen_setsuzoku", "fukushi_kanou"}

\* C11: the word-cloud corpus is the space-joined base forms, in text order and with
\* repetitions, of exactly the morphemes whose part of speech is selected, whose base
\* form is not a stop word and which are not nouns sub-classified numeral,
\* non-independent, pronoun or suffix; a noun sub-classified サ変接続 or 副詞可能 is
\* in the corpus while the report and the co-occurrence network leave it out.
C11_WordCloudCorpus ==
    (pc = "returned" /\ ret # None) =>
        /\ (ret.wordcloud = None) <=> (WordCloudKept = {})
        /\ ret.wordcloud # None =>
               /\ Len(ret.wordcloud.words) = Cardinality(WordCloudKept)
               /\ \A k \in DOMAIN ret.wordcloud.words :
                      ret.wordcloud.words[k] = morphemes_data_list_result[KthKept(k)].genkei
               /\ IsSpaceJoinedCorpus(ret.wordcloud.text)
        /\ \A i \in WordCloudKept :
               LET m == morphemes_data_list_result[i]
               IN  IsVerbalOrAdverbialNoun(m) =>
                       /\ \E k \in DOMAIN ret.wordcloud.words :
                              ret.wordcloud.words[k] = m.genkei
                       /\ \A r \in DOMAIN ret.report.df :
                              ret.report.df[r].tango # m.genkei
                       /\ ret.network # None =>
                              \A k \in DOMAIN ret.network.nodes :
                                  ret.network.nodes[k].word # m.genkei

\* a corpus that repeats a サ変接続 noun, from a text that also holds a morpheme the
\* word cloud drops, next to a report that kept none of the three
C11_Witness ==
    /\ pc = "returned"
    /\ ret # None
    /\ ret.wordcloud # None
    /\ \E j, k \in DOMAIN ret.wordcloud.words :
           /\ j < k
           /\ ret.wordcloud.words[j] = <<"c">>
           /\ ret.wordcloud.words[k] = <<"c">>
    /\ Len(morphemes_data_list_result) > Cardinality(WordCloudKept)
    /\ ret.report.total_all = 3
    /\ ret.report.total_target = 0

-----------------------------------------------------------------------------
(* SpecSession: the script, run once for every page load and every interaction of
   every session, against the one process-wide st.cache_resource *)

\* the body of initialize_mecab_tagger_to_session (lines 58-71): what it leaves in the
\* session state of the session that runs it, and what it returns
initializer_body(mecab_ok) ==
    IF mecab_ok
    THEN [state |-> [mecab_tagger_initialized |-> PyTrue, tagger_object |-> TaggerObject],
          value |-> TaggerObject]
    ELSE [state |-> [mecab_tagger_initialized |-> PyFalse, tagger_object |-> Absent],
          value |-> None]

\* a call of the @st.cache_resource function (lines 46-47): the body runs only when
\* nothing is cached; a cached value is returned without running the body
call_initializer(cache, state, mecab_ok) ==
    IF cache.cached
    THEN [cache |-> cache, state |-> state, ran_body |-> FALSE]
    ELSE [cache |-> [cached |-> TRUE, value |-> initializer_body(mecab_ok).value],
          state |-> initializer_body(mecab_ok).state,
          ran_body |-> TRUE]

\* st.session_state.get('mecab_tagger_initialized', False)
initialized_flag(state) == state.mecab_tagger_initialized = PyTrue

\* the condition of line 74
needs_initialization(state) ==
    state.tagger_object = Absent \/ ~initialized_flag(state)

\* lines 74-76: the script's tagger preparation for one session
prepare_tagger(cache, state, mecab_ok) ==
    IF needs_initialization(state)
    THEN call_initializer(cache, state, mecab_ok)
    ELSE [cache |-> cache, state |-> state, ran_body |-> FALSE]

\* the condition of line 271: the request is rejected as 'tagger unavailable'
tagger_unavailable(state) ==
    state.tagger_object = Absent \/ ~initialized_flag(state)

\* lines 268-280: what a click on the analyse button leads to
button_outcome(state, text) ==
    IF strip_units(text) = <<>> THEN "warning_no_text"
    ELSE IF tagger_unavailable(state) THEN "tagger_unavailable"
    ELSE IF perform_morphological_analysis(TRUE, text) = <<>> THEN "analysis_empty"
    ELSE "analysed"

\* the texts a session submits: nothing, blank, and short texts
SessionTexts == SeqUpTo({<<"a", "b">>, <<"b">>, <<" ">>}, MaxStopTextLen)

InitSession ==
    /\ IdleText /\ IdleFilter /\ IdleStopText /\ IdleNet /\ IdleKwic
    /\ IdleSession
    /\ pc = "serving"
    /\ ret = [session |-> 0, clicked |-> FALSE, outcome |-> "none"]

\* one run of the script for session s: the page is loaded or a widget was used
\* (clicked: the widget was the analyse button); mecab_ok: the tagger's files exist
ScriptRun(s) ==
    \E clicked \in BOOLEAN, text \in SessionTexts, mecab_ok \in BOOLEAN :
        LET prepared == prepare_tagger(cache_resource, session_state[s], mecab_ok)
            outcome == IF clicked THEN button_outcome(prepared.state, text)
                       ELSE "no_request"
        IN  /\ cache_resource' = prepared.cache
            /\ session_state' = [session_state EXCEPT ![s] = prepared.state]
            /\ tagger_constructions' =
                   IF prepared.ran_body THEN tagger_constructions + 1
                   ELSE tagger_constructions
            /\ main_text_input_area_val' = text
            /\ morphemes_data_list_result' =
                   IF outcome = "analysed"
                   THEN perform_morphological_analysis(TRUE, text)
                   ELSE <<>>
            /\ ret' = [session |-> s, clicked |-> clicked, outcome |-> outcome]
            /\ UNCHANGED <<filterVars, custom_stopwords_input_str_from_ui, netVars,
                           kwicVars, pc>>

NextSession == \E s \in Sessions : ScriptRun(s)

SpecSession == InitSession /\ [][NextSession]_vars

-----------------------------------------------------------------------------
(* Claims about the tagger's initialisation *)

\* an initialisation has succeeded: the process-wide cache holds the tagger
InitialisationSucceeded ==
    cache_resource.cached /\ cache_resource.value = TaggerObject

\* C10: the tagger is initialised at most once in the life of the process, and once
\* an initialisation has succeeded no analysis request of any session is rejected as
\* 'tagger unavailable'.
C10_InitOnceAndReusedByEverySession ==
    /\ tagger_constructions <= 1
    /\ InitialisationSucceeded => ret.outcome # "tagger_unavailable"

-----------------------------------------------------------------------------
(* SpecRerun: one browser session using the page. Every interaction with a widget
   makes Streamlit run the whole script again; st.button returns True only in the
   run its click caused, and a widget the run did not render loses its state when
   the run ends. *)

\* a string held by st.session_state or by a widget
PyStr(s) == [py |-> "str", value |-> s]

\* the session of the user
UserSession == 1

\* lines 322 and 326: st.text_input(value=st.session_state.kwic_keyword, key=...)
\* returns the widget's state when it has one, the value argument otherwise
kwic_keyword_input_val(session_keyword, widget_state) ==
    LET value == IF session_keyword = Absent THEN <<>> ELSE session_keyword.value
    IN  IF widget_state # Absent THEN widget_state.value ELSE value

\* lines 335-340: the search runs only for a keyword that is not blank
results_kwic_list_data(all_morphemes, input_val, mode, window) ==
    IF strip(input_val) # <<>>
    THEN [kw_to_search |-> strip(input_val),
          all_morphemes |-> all_morphemes,
          rows |-> perform_kwic_search(all_morphemes, strip(input_val), mode, window)]
    ELSE None

\* lines 265-343: the result area of one run of the script
result_area(clicked, state, text, widget_state) ==
    LET outcome == IF clicked THEN button_outcome(state, text) ELSE "no_request"
        morphemes == perform_morphological_analysis(TRUE, text)
        input_val == kwic_keyword_input_val(kwic_keyword, widget_state)
    IN  IF outcome = "analysed"
        THEN [outcome |-> outcome,
              morphemes |-> morphemes,
              report |-> generate_word_report(morphemes, target_pos_list,
                             final_stop_words_set_for_analysis),
              wordcloud |-> wordcloud_text_input_str(morphemes, font_path,
                             target_pos_list, final_stop_words_set_for_analysis),
              network |-> generate_cooccurrence_network_html(TRUE, morphemes, text,
                             font_path, target_pos_list,
                             final_stop_words_set_for_analysis,
                             network_node_min_freq_val_ui, network_edge_min_freq_val_ui),
              kwic |-> results_kwic_list_data(morphemes, input_val,
                             search_key_type_str, window_int),
              kwic_keyword |-> PyStr(input_val),
              widget |-> PyStr(input_val)]
        ELSE [outcome |-> outcome,
              morphemes |-> <<>>,
              report |-> None, wordcloud |-> None, network |-> None, kwic |-> None,
              kwic_keyword |-> kwic_keyword,
              widget |-> Absent]

\* one run of the whole script with the tagger's files present
script_run(interaction, clicked, text, widget_state) ==
    \E prepared \in {prepare_tagger(cache_resource, session_state[UserSession], TRUE)} :
    \E area \in {result_area(clicked, prepared.state, text, widget_state)} :
        /\ cache_resource' = prepared.cache
        /\ session_state' = [session_state EXCEPT ![UserSession] = prepared.state]
        /\ tagger_constructions' =
               IF prepared.ran_body THEN tagger_constructions + 1
               ELSE tagger_constructions
        /\ main_text_input_area_val' = text
        /\ morphemes_data_list_result' = area.morphemes
        /\ kwic_keyword' = area.kwic_keyword
        /\ kwic_keyword_input_field' = area.widget
        /\ pc' = interaction
        /\ ret' = [outcome |-> area.outcome, report |-> area.report,
                   wordcloud |-> area.wordcloud, network |-> area.network,
                   kwic |-> area.kwic]
        /\ UNCHANGED <<filterVars, custom_stopwords_input_str_from_ui, netVars,
                       search_key_type_str, window_int>>

\* the texts of the text area, and the keywords typed into the KWIC field
RerunTexts == SessionTexts
RerunKeywords == {<<"a", "b">>, <<"b", "a">>, <<" ">>}

InitRerun ==
    /\ main_text_input_area_val \in RerunTexts
    /\ morphemes_data_list_result = <<>>
    /\ target_pos_list = {"meishi", "doushi", "keiyoushi"}
    /\ final_stop_words_set_for_analysis = {}
    /\ IdleStopText /\ IdleNet /\ IdleKwic
    /\ IdleSession
    /\ pc = "loaded"
    /\ ret = None

\* the user clicks the analyse button: a run in which st.button returns True
ClickAnalyze ==
    /\ keyword_str' = keyword_str
    /\ script_run("clicked", TRUE, main_text_input_area_val, kwic_keyword_input_field)

\* the user types a keyword into the KWIC field, which is on the page only after a
\* run that rendered it: a run in which st.button returns False
TypeKwicKeyword ==
    /\ kwic_keyword_input_field # Absent
    /\ \E kw \in RerunKeywords :
           /\ keyword_str' = kw
           /\ script_run("typed", FALSE, main_text_input_area_val, PyStr(kw))

\* the user edits the text area: a run in which st.button returns False
EditText ==
    /\ keyword_str' = keyword_str
    /\ \E text \in RerunTexts :
           script_run("edited", FALSE, text, kwic_keyword_input_field)

NextRerun == ClickAnalyze \/ TypeKwicKeyword \/ EditText

\* the user goes on using the page: typing and editing are not put off for ever,
\* and the analyse button is clicked again and again (each click starting a run
\* that changes the page), which implies WF_vars(ClickAnalyze)
FairRerun ==
    /\ WF_vars(TypeKwicKeyword)
    /\ WF_vars(EditText)
    /\ []<><<ClickAnalyze>>_vars

SpecRerun == InitRerun /\ [][NextRerun]_vars /\ FairRerun

-----------------------------------------------------------------------------
(* Claims about the rerun flow *)

\* the user has just typed a keyword that is not blank
TypedKeyword ==
    pc = "typed" /\ strip(keyword_str) # <<>>

\* perform_kwic_search has run with the typed keyword on the analysed morphemes
KwicSearchRanWithTypedKeyword ==
    /\ ret # None
    /\ ret.outcome = "analysed"
    /\ ret.kwic # None
    /\ ret.kwic.kw_to_search = strip(keyword_str)
    /\ ret.kwic.all_morphemes = morphemes_data_list_result

\* C12: a run of the analysis with a text and an available tagger tokenizes and then
\* runs the four analyzers on the one morpheme sequence; a user who enters a KWIC
\* keyword that is not blank reaches a state in which perform_kwic_search has run
\* with that keyword on the analysed morpheme sequence.
C12_TypedKeywordIsSearched == TypedKeyword ~> KwicSearchRanWithTypedKeyword

\* what the model shows instead: in no run does perform_kwic_search run at all
KwicSearchNeverRuns == ret # None => ret.kwic = None

\* a run that analysed a text and rendered the first three analyzers' results
ThreeAnalyzersRan ==
    /\ pc = "clicked"
    /\ ret.outcome = "analysed"
    /\ ret.report.total_all = Len(morphemes_data_list_result)
    /\ ret.wordcloud # None

=============================================================================
